---- MODULE Spec2Model ----
(***************************************************************************)
(* DoubleKeyTable (src/double_key_table.py): a two-level open-addressed    *)
(* hash table.  The outer array holds (key1, inner table) pairs; each      *)
(* inner table is a LinearProbeTable (data_structures.hash_table) holding  *)
(* (key2, value) pairs.                                                    *)
(*                                                                         *)
(* Keys are strings, written here as tuples of character codes             *)
(* ("a" is <<97>>), so that hash1/hash2 are computed as the code computes  *)
(* them.  Python's None is the empty tuple; a Python tuple (x, y) is the   *)
(* tuple <<x, y>>, so item[0] is item[1] here and item[1] is item[2].      *)
(* Arrays are functions over 0..n-1, as ArrayR is indexed.                 *)
(*                                                                         *)
(* InfiniteHashTable (src/infinite_hash_table.py) is modelled in the last  *)
(* section but one, under the specification SpecIHT, and Trail.follow_path *)
(* (src/trail.py) in the last, under SpecTrail; both use the same two      *)
(* variables.                                                             *)
(***************************************************************************)
EXTENDS Integers, Sequences, FiniteSets, TLC

VARIABLES self, last

vars == <<self, last>>

\* ------------------------------------------------------------- bounds --
\* size_index grows by one on every set that finds the capacity sequence
\* exhausted, and table_count grows on every outer cluster repair: both are
\* capped in the guards of the actions.
MaxSizeIndex == 2
MaxTableCount == 4

\* ------------------------------------------------------------- inputs --
\* "a", "ba", "b": hash1 is 1, 1, 0 at capacity 2, 1, 0, 2 at capacity 3 and
\* 6, 6, 0 at capacity 7.
K1Keys == {<<97>>, <<98, 97>>, <<98>>}
\* "x", "d": hash2 is 0, 1 at capacity 3 and 0, 0 at capacity 5.
K2Keys == {<<120>>, <<100>>}
Values == {1, 2}
\* the pairs the client stores: ("a","x"), ("a","d"), ("ba","x"), ("b","d");
\* lookups and deletions are tried on every pair of K1Keys \X K2Keys
Pairs == {<<<<97>>, <<120>>>>, <<<<97>>, <<100>>>>,
          <<<<98, 97>>, <<120>>>>, <<<<98>>, <<100>>>>}
\* the sizes / internal_sizes arguments of the constructor
SizesChoices == {<<2>>, <<2, 3>>, <<3, 7>>}
InternalSizesChoices == {<<3, 5>>}

\* ------------------------------------------------------------ helpers --
None == <<>>

ArrayR(n) == [i \in 0..(n - 1) |-> None]

len(arr) == Cardinality(DOMAIN arr)

HASH_BASE == 31

\* the loop of hash1 / hash2: value and a after the characters before i
RECURSIVE HashLoop(_, _, _, _, _)
HashLoop(key, i, value, a, size) ==
    IF i > Len(key) THEN value
    ELSE HashLoop(key, i + 1, (key[i] + a * value) % size,
                  (a * HASH_BASE) % (size - 1), size)

table_size(t) == len(t.array)

hash1(t, key) == HashLoop(key, 1, 0, 31415, table_size(t))

hash2(key, sub_table) == HashLoop(key, 1, 0, 31415, table_size(sub_table))

\* results of calls: err is "none" or the name of the exception raised
\* and kind tells a returned value from a returned None
Ok(v) == [err |-> "none", kind |-> "value", val |-> v]
ReturnNone == [err |-> "none", kind |-> "None", val |-> None]
Raise(e) == [err |-> e, kind |-> "raise", val |-> None]

\* ---------------------------------------------------- LinearProbeTable --
\* The inner tables.  data_structures/hash_table.py is not among the source
\* files; these definitions follow sections 3 and 4.2-4.5 of the
\* specification for a single-key table.  Its hash is replaced by hash2
\* (double_key_table.py lines 88 and 208).

\* LinearProbeTable(sizes): first capacity of the sequence, no entries
LinearProbeTable(sizes) ==
    [array |-> ArrayR(sizes[1]), count |-> 0, size_index |-> 0]

RECURSIVE LPT_probe_loop(_, _, _, _, _)
LPT_probe_loop(tab, key, is_insert, position, i) ==
    IF i >= table_size(tab) THEN Raise("FullError")
    ELSE IF tab.array[position] = None
         THEN IF is_insert THEN Ok(position) ELSE Raise("KeyError")
    ELSE IF tab.array[position][1] = key THEN Ok(position)
    ELSE LPT_probe_loop(tab, key, is_insert,
                        (position + 1) % table_size(tab), i + 1)

\* tab._linear_probe(key, is_insert)
LPT_linear_probe(tab, key, is_insert) ==
    LPT_probe_loop(tab, key, is_insert, hash2(key, tab), 0)

\* reinsert the entries of old_array, from slot i on, in storage order
RECURSIVE LPT_reinsert(_, _, _)
LPT_reinsert(tab, old_array, i) ==
    IF i >= len(old_array) THEN tab
    ELSE IF old_array[i] = None THEN LPT_reinsert(tab, old_array, i + 1)
    ELSE LET p == LPT_linear_probe(tab, old_array[i][1], TRUE)
         IN  LPT_reinsert([tab EXCEPT !.array[p.val] = old_array[i],
                                      !.count = @ + 1],
                          old_array, i + 1)

\* tab._rehash(): the next capacity, every entry reinserted by key
LPT_rehash(tab, sizes) ==
    IF tab.size_index + 1 >= Len(sizes)
    THEN [err |-> "CapacityExhausted", tab |-> tab]
    ELSE [err |-> "none",
          tab |-> LPT_reinsert([array |-> ArrayR(sizes[tab.size_index + 2]),
                                count |-> 0,
                                size_index |-> tab.size_index + 1],
                               tab.array, 0)]

\* tab[key] = data: [err, tab]; a failed call leaves the table as it was
LPT_setitem(tab, key, data, sizes) ==
    LET p == LPT_linear_probe(tab, key, TRUE)
    IN  IF p.err # "none" THEN [err |-> p.err, tab |-> tab]
        ELSE LET t1 == [tab EXCEPT
                          !.array[p.val] = <<key, data>>,
                          !.count = IF tab.array[p.val] = None
                                    THEN @ + 1 ELSE @]
             IN  IF 2 * t1.count > table_size(t1)
                 THEN LET r == LPT_rehash(t1, sizes)
                      IN  IF r.err = "none" THEN r
                          ELSE [err |-> r.err, tab |-> tab]
                 ELSE [err |-> "none", tab |-> t1]

\* cluster repair after a slot was cleared: every entry of the run that
\* follows is cleared and reinserted
RECURSIVE LPT_repair(_, _)
LPT_repair(tab, position) ==
    IF tab.array[position] = None THEN tab
    ELSE LET item == tab.array[position]
             t1 == [tab EXCEPT !.array[position] = None]
             p == LPT_linear_probe(t1, item[1], TRUE)
         IN  LPT_repair([t1 EXCEPT !.array[p.val] = item],
                        (position + 1) % table_size(tab))

\* del tab[key]: [err, tab]
LPT_delitem(tab, key) ==
    LET p == LPT_linear_probe(tab, key, FALSE)
    IN  IF p.err # "none" THEN [err |-> p.err, tab |-> tab]
        ELSE [err |-> "none",
              tab |-> LPT_repair([tab EXCEPT !.array[p.val] = None,
                                             !.count = @ - 1],
                                 (p.val + 1) % table_size(tab))]

LPT_is_empty(tab) == tab.count = 0

\* the occupied slots of an array, in storage order, from slot i on
RECURSIVE Occupied(_, _)
Occupied(arr, i) ==
    IF i >= len(arr) THEN <<>>
    ELSE IF arr[i] = None THEN Occupied(arr, i + 1)
    ELSE <<arr[i]>> \o Occupied(arr, i + 1)

LPT_keys(tab) ==
    LET items == Occupied(tab.array, 0)
    IN  [n \in 1..Len(items) |-> items[n][1]]

LPT_values(tab) ==
    LET items == Occupied(tab.array, 0)
    IN  [n \in 1..Len(items) |-> items[n][2]]

\* ------------------------------------------------------ DoubleKeyTable --
\* DoubleKeyTable(sizes, internal_sizes)
DoubleKeyTable(sizes, internal_sizes) ==
    [count |-> 0, table_count |-> 0, size_index |-> 0,
     sizes |-> sizes, internal_sizes |-> internal_sizes,
     array |-> ArrayR(sizes[1])]

\* probe_loop that, when inserting, passes over the slot bound to key1 and
\* binds the first empty slot
RECURSIVE probe_loop_no_match(_, _, _, _, _, _)
probe_loop_no_match(t, key1, key2, is_insert, position1, i) ==
    IF i >= table_size(t)
    THEN [err |-> "FullError", val |-> None, t |-> t]
    ELSE IF t.array[position1] = None
    THEN IF is_insert
         THEN LET new == LinearProbeTable(t.internal_sizes)
                  t1 == [t EXCEPT !.array[position1] = <<key1, new>>,
                                  !.table_count = @ + 1]
                  p2 == LPT_linear_probe(new, key2, is_insert)
              IN  [err |-> p2.err, val |-> <<position1, p2.val>>, t |-> t1]
         ELSE [err |-> "KeyError", val |-> None, t |-> t]
    ELSE IF ~is_insert /\ t.array[position1][1] = key1
    THEN LET p2 == LPT_linear_probe(t.array[position1][2], key2, is_insert)
         IN  [err |-> p2.err, val |-> <<position1, p2.val>>, t |-> t]
    ELSE probe_loop_no_match(t, key1, key2, is_insert,
                             (position1 + 1) % table_size(t), i + 1)

\* the for loop of _linear_probe: [err, val = <<position1, position2>>, t]
RECURSIVE probe_loop(_, _, _, _, _, _)
probe_loop(t, key1, key2, is_insert, position1, i) ==
    IF i >= table_size(t)
    THEN [err |-> "FullError", val |-> None, t |-> t]
    ELSE IF t.array[position1] = None
    THEN IF is_insert
         THEN LET new == LinearProbeTable(t.internal_sizes)
                  t1 == [t EXCEPT !.array[position1] = <<key1, new>>,
                                  !.table_count = @ + 1]
                  p2 == LPT_linear_probe(new, key2, is_insert)
              IN  [err |-> p2.err, val |-> <<position1, p2.val>>, t |-> t1]
         ELSE [err |-> "KeyError", val |-> None, t |-> t]
    ELSE IF t.array[position1][1] = key1
    THEN LET p2 == LPT_linear_probe(t.array[position1][2], key2, is_insert)
         IN  [err |-> p2.err, val |-> <<position1, p2.val>>, t |-> t]
    ELSE probe_loop(t, key1, key2, is_insert,
                    (position1 + 1) % table_size(t), i + 1)

\* linear_probe that starts one slot past hash1(key1)
linear_probe_from_next(t, key1, key2, is_insert) ==
    LET r == probe_loop(t, key1, key2, is_insert,
                        (hash1(t, key1) + 1) % table_size(t), 0)
    IN  r

\* self._linear_probe(key1, key2, is_insert)
linear_probe(t, key1, key2, is_insert) ==
    probe_loop(t, key1, key2, is_insert, hash1(t, key1), 0)

\* getitem_state that probes with is_insert
getitem_state_inserting(t, key1, key2) ==
    linear_probe(t, key1, key2, TRUE).t

\* the table as self[key1, key2] leaves it: what its one call that touches
\* the table, _linear_probe(key1, key2, False), leaves
getitem_state(t, key1, key2) ==
    linear_probe(t, key1, key2, FALSE).t

\* self[key1, key2]
getitem(t, key1, key2) ==
    LET positions == linear_probe(t, key1, key2, FALSE)
    IN  IF positions.err # "none" THEN Raise(positions.err)
        ELSE Ok(t.array[positions.val[1]][2].array[positions.val[2]][2])

\* (key1, key2) in self: only KeyError is caught
contains(t, key1, key2) ==
    LET r == getitem(t, key1, key2)
    IN  IF r.err = "KeyError" THEN Ok(FALSE)
        ELSE IF r.err = "none" THEN Ok(TRUE)
        ELSE Raise(r.err)

\* the for loop of _rehash: each item of old_array, from slot i on, is
\* written at hash1 of its key in the new array
RECURSIVE rehash_loop(_, _, _)
rehash_loop(t, old_array, i) ==
    IF i >= len(old_array) THEN t
    ELSE IF old_array[i] = None THEN rehash_loop(t, old_array, i + 1)
    ELSE rehash_loop([t EXCEPT !.array[hash1(t, old_array[i][1])] = old_array[i]],
                     old_array, i + 1)

\* self._rehash(): [err, t]; sizes[size_index] raises IndexError past the
\* end of the list, after size_index was incremented
rehash(t) ==
    LET t1 == [t EXCEPT !.size_index = @ + 1]
    IN  IF t1.size_index >= Len(t1.sizes)
        THEN [err |-> "IndexError", t |-> t1]
        ELSE [err |-> "none",
              t |-> rehash_loop([t1 EXCEPT
                                   !.array = ArrayR(t1.sizes[t1.size_index + 1]),
                                   !.count = 0],
                                t.array, 0)]

\* needs_rehash that waits until every slot is bound
needs_rehash_when_full(t) == t.table_count >= table_size(t)

\* the test of line 209: table_count > table_size / 2
needs_rehash(t) == 2 * t.table_count > table_size(t)

\* self[key1, key2] = data: [err, t]
setitem(t, key1, key2, data) ==
    LET positions == linear_probe(t, key1, key2, TRUE)
    IN  IF positions.err # "none"
        THEN [err |-> positions.err, t |-> positions.t]
        ELSE
        LET p1 == positions.val[1]
            p2 == positions.val[2]
            inner_table == positions.t.array[p1][2]
            t1 == IF inner_table.array[p2] = None
                  THEN [positions.t EXCEPT !.count = @ + 1]
                  ELSE positions.t
            w == LPT_setitem(inner_table, key2, data, t.internal_sizes)
            t2 == [t1 EXCEPT !.array[p1] = <<key1, w.tab>>]
        IN  IF w.err # "none" THEN [err |-> w.err, t |-> t2]
            ELSE IF needs_rehash(t2) THEN rehash(t2)
            ELSE [err |-> "none", t |-> t2]

\* repair_loop that leaves the run after the cleared slot where it is
repair_loop_skipped(t, key2, position, fuel, moved) ==
    [err |-> "none", t |-> t, moved |-> moved]

\* repair_loop that stops at the first item of the run and never returns
repair_loop_stuck(t, key2, position, fuel, moved) ==
    IF t.array[position] = None
    THEN [err |-> "none", t |-> t, moved |-> moved]
    ELSE [err |-> "NoReturn", t |-> t, moved |-> moved]

\* repair_loop that leaves each moved item's slot bound to the fresh inner
\* table _linear_probe made, without writing the item there
RECURSIVE repair_loop_leaves_fresh(_, _, _, _, _)
repair_loop_leaves_fresh(t, key2, position, fuel, moved) ==
    IF t.array[position] = None
    THEN [err |-> "none", t |-> t, moved |-> moved]
    ELSE IF fuel = 0 THEN [err |-> "NoReturn", t |-> t, moved |-> moved]
    ELSE LET item == t.array[position]
             t1 == [t EXCEPT !.array[position] = None]
             newpos == linear_probe(t1, item[1], key2, TRUE)
         IN  IF newpos.err # "none"
             THEN [err |-> newpos.err, t |-> newpos.t, moved |-> moved]
             ELSE repair_loop_leaves_fresh(newpos.t, key2,
                                           (position + 1) % table_size(t),
                                           fuel - 1, moved + 1)

\* the while loop of __delitem__: each item of the run after the cleared
\* slot is cleared, probed for with is_insert (which binds a fresh inner
\* table and counts it) and written at the position found.  The loop ends
\* at the first empty slot; fuel bounds the walk, and running out of it is
\* reported as a call that does not return.
\* moved counts the items reinserted so far.
RECURSIVE repair_loop(_, _, _, _, _)
repair_loop(t, key2, position, fuel, moved) ==
    IF t.array[position] = None
    THEN [err |-> "none", t |-> t, moved |-> moved]
    ELSE IF fuel = 0 THEN [err |-> "NoReturn", t |-> t, moved |-> moved]
    ELSE LET item == t.array[position]
             t1 == [t EXCEPT !.array[position] = None]
             newpos == linear_probe(t1, item[1], key2, TRUE)
         IN  IF newpos.err # "none"
             THEN [err |-> newpos.err, t |-> newpos.t, moved |-> moved]
             ELSE repair_loop([newpos.t EXCEPT !.array[newpos.val[1]] = item],
                              key2, (position + 1) % table_size(t), fuel - 1,
                              moved + 1)

\* remove_entry without the decrement of count
remove_entry_keeps_count(t, key1, key2, p1) ==
    LET d == LPT_delitem(t.array[p1][2], key2)
    IN  [t EXCEPT !.array[p1] = <<key1, d.tab>>]

\* lines 225-226: the entry is deleted from its inner table and counted out
remove_entry(t, key1, key2, p1) ==
    LET d == LPT_delitem(t.array[p1][2], key2)
    IN  [t EXCEPT !.array[p1] = <<key1, d.tab>>, !.count = @ - 1]

\* del self[key1, key2]: [err, t, cleared, moved]; cleared is the outer
\* slot set to None (-1 when none was) and moved the number of items the
\* while loop reinserted
delitem(t, key1, key2) ==
    LET positions == linear_probe(t, key1, key2, FALSE)
    IN  IF positions.err # "none"
        THEN [err |-> positions.err, t |-> t, cleared |-> -1, moved |-> 0]
        ELSE
        LET p1 == positions.val[1]
            t1 == remove_entry(t, key1, key2, p1)
        IN  IF LPT_is_empty(t1.array[p1][2])
            THEN LET r == repair_loop([t1 EXCEPT !.table_count = @ - 1,
                                                 !.array[p1] = None],
                                      key2, (p1 + 1) % table_size(t),
                                      table_size(t) * (table_size(t) + 1), 0)
                 IN  [err |-> r.err, t |-> r.t, cleared |-> p1,
                      moved |-> r.moved]
            ELSE [err |-> "none", t |-> t1, cleared |-> -1, moved |-> 0]

\* self.keys(key): the first slot, from slot i on, bound to key; the loop
\* falls off its end without a return statement, which returns None
RECURSIVE keys_scan(_, _, _)
keys_scan(t, key, i) ==
    IF i >= table_size(t) THEN ReturnNone
    ELSE IF t.array[i] # None /\ t.array[i][1] = key
         THEN Ok(LPT_keys(t.array[i][2]))
    ELSE keys_scan(t, key, i + 1)

keys(t, key) ==
    IF key = None
    THEN LET items == Occupied(t.array, 0)
         IN  Ok([n \in 1..Len(items) |-> items[n][1]])
    ELSE keys_scan(t, key, 0)

RECURSIVE values_scan(_, _, _)
values_scan(t, key, i) ==
    IF i >= table_size(t) THEN Ok(<<>>)
    ELSE IF t.array[i] # None /\ t.array[i][1] = key
         THEN Ok(LPT_values(t.array[i][2]))
    ELSE values_scan(t, key, i + 1)

\* values_all that stops after one item
values_all_first_only(items, n) ==
    IF n > Len(items) THEN <<>> ELSE LPT_values(items[n][2])

\* the values of the items, from the n-th on, concatenated
RECURSIVE values_all(_, _)
values_all(items, n) ==
    IF n > Len(items) THEN <<>>
    ELSE LPT_values(items[n][2]) \o values_all(items, n + 1)

values(t, key) ==
    IF key = None THEN Ok(values_all(Occupied(t.array, 0), 1))
    ELSE values_scan(t, key, 0)

\* len(self)
length(t) == t.count

\* ------------------------------------------------------------ actions --
\* last is the call made last: its arguments, what it returned or raised,
\* and (note) what a set or a delete did to the outer array: resized tells
\* that _rehash built a new array, cleared is the outer slot a delete set
\* to None (-1 when none was), moved the number of items its while loop
\* reinserted.
Note(resized, cleared, moved) ==
    [resized |-> resized, cleared |-> cleared, moved |-> moved]

NoNote == Note(FALSE, -1, 0)

Call(op, key1, key2, data, ret, note) ==
    [op |-> op, key1 |-> key1, key2 |-> key2, data |-> data, ret |-> ret,
     note |-> note]

WithinBounds(t) ==
    /\ t.size_index <= MaxSizeIndex
    /\ t.table_count <= MaxTableCount

Init ==
    /\ \E sizes \in SizesChoices, internal_sizes \in InternalSizesChoices :
          self = DoubleKeyTable(sizes, internal_sizes)
    /\ last = Call("init", None, None, 0, ReturnNone, NoNote)

Set(key1, key2, data) ==
    LET r == setitem(self, key1, key2, data)
    IN  /\ WithinBounds(r.t)
        /\ self' = r.t
        /\ last' = Call("set", key1, key2, data,
                        IF r.err = "none" THEN ReturnNone ELSE Raise(r.err),
                        Note(table_size(r.t) # table_size(self), -1, 0))

Delete(key1, key2) ==
    LET r == delitem(self, key1, key2)
    IN  /\ WithinBounds(r.t)
        /\ self' = r.t
        /\ last' = Call("delete", key1, key2, 0,
                        IF r.err = "none" THEN ReturnNone ELSE Raise(r.err),
                        Note(FALSE, r.cleared, r.moved))

Get(key1, key2) ==
    /\ last' = Call("get", key1, key2, 0, getitem(self, key1, key2), NoNote)
    /\ self' = getitem_state(self, key1, key2)

Contains(key1, key2) ==
    /\ last' = Call("contains", key1, key2, 0, contains(self, key1, key2),
                    NoNote)
    /\ self' = getitem_state(self, key1, key2)

Keys(key) ==
    /\ last' = Call("keys", key, None, 0, keys(self, key), NoNote)
    /\ UNCHANGED self

ValuesOf(key) ==
    /\ last' = Call("values", key, None, 0, values(self, key), NoNote)
    /\ UNCHANGED self

LenOf ==
    /\ last' = Call("len", None, None, 0, Ok(length(self)), NoNote)
    /\ UNCHANGED self

Next ==
    \/ \E p \in Pairs, data \in Values : Set(p[1], p[2], data)
    \/ \E key1 \in K1Keys, key2 \in K2Keys : Delete(key1, key2)
    \/ \E key1 \in K1Keys, key2 \in K2Keys : Get(key1, key2)
    \/ \E key1 \in K1Keys, key2 \in K2Keys : Contains(key1, key2)
    \/ \E key \in K1Keys \cup {None} : Keys(key)
    \/ \E key \in K1Keys \cup {None} : ValuesOf(key)
    \/ LenOf

Spec == Init /\ [][Next]_vars

\* ------------------------------------------------------------- claims --
\* the outer slots that hold an item
OccupiedSlots(t) == {i \in DOMAIN t.array : t.array[i] # None}

\* key1 has an outer slot
HasOuterSlot(t, key1) == \E i \in OccupiedSlots(t) : t.array[i][1] = key1

\* the pairs held in the slots of the table, however they are reached
StoredPairs(t) ==
    {p \in K1Keys \X K2Keys :
        \E i \in OccupiedSlots(t) :
            /\ t.array[i][1] = p[1]
            /\ \E j \in DOMAIN t.array[i][2].array :
                  /\ t.array[i][2].array[j] # None
                  /\ t.array[i][2].array[j][1] = p[2]}

\* the pairs a lookup finds
Retrievable(t) == {p \in K1Keys \X K2Keys : getitem(t, p[1], p[2]).err = "none"}

\* every pair of keep that a lookup finds in t is found in u with its value
Preserved(t, u, keep) ==
    \A p \in keep \cap Retrievable(t) :
        getitem(u, p[1], p[2]) = getitem(t, p[1], p[2])

\* the number of positions of a sequence that hold v
Occurrences(seq, v) == Cardinality({n \in 1..Len(seq) : seq[n] = v})

\* C1: after a set(k1,k2,v) that returned, get(k1,k2) returns v, also when
\* the set resized the outer table.
C1_RoundTrip ==
    (last.op = "set" /\ last.ret.err = "none")
        => getitem(self, last.key1, last.key2) = Ok(last.data)

\* C2: a set(k1,k2,v) leaves every other pair that a lookup found before the
\* call found with the same value after it, also when it resizes the outer
\* table.
C2_SetPreservesOthers ==
    [][last'.op = "set"
         => Preserved(self, self',
                      (K1Keys \X K2Keys) \ {<<last'.key1, last'.key2>>})]_vars

\* C3: len() is the number of distinct pairs stored, and is never negative.
C3_LenIsNumberStored ==
    last.op = "len"
        => /\ last.ret.val = Cardinality(StoredPairs(self))
           /\ last.ret.val >= 0

C5_ClusterRepair ==
    [][(last'.op = "delete" /\ <<last'.key1, last'.key2>> \in Retrievable(self))
         => /\ last'.ret.err = "none"
            /\ Preserved(self, self',
                         (K1Keys \X K2Keys) \ {<<last'.key1, last'.key2>>})]_vars

\* C5 witness: in a table that never failed to grow, a delete cleared an
\* outer slot whose predecessor is occupied (the middle of a cluster) and
\* reinserted the item that followed, which is still displaced from the
\* slot hash1 gives; both survivors are retrievable.
C5_Witness ==
    /\ last.op = "delete"
    /\ last.ret.err = "none"
    /\ self.size_index < Len(self.sizes)
    /\ last.note.cleared >= 0
    /\ last.note.moved >= 1
    /\ self.array[(last.note.cleared + table_size(self) - 1)
                  % table_size(self)] # None
    /\ \E i \in OccupiedSlots(self) : hash1(self, self.array[i][1]) # i
    /\ Cardinality({p[1] : p \in Retrievable(self)}) >= 2

\* C6: get and delete of a pair that is not stored raise KeyError and leave
\* the table as it was.
C6_NotFound ==
    [][(last'.op \in {"get", "delete"}
        /\ <<last'.key1, last'.key2>> \notin StoredPairs(self))
         => /\ last'.ret.err = "KeyError"
            /\ self' = self]_vars

\* the outer table must grow when key1 is given a slot: the occupied slots
\* then exceed half the capacity
MustGrow(t, key1) ==
    2 * (Cardinality(OccupiedSlots(t)) + (IF HasOuterSlot(t, key1) THEN 0 ELSE 1))
        > table_size(t)

\* the capacity sequence has no larger entry
NoLargerCapacity(t) == t.size_index + 1 >= Len(t.sizes)

\* C7: a set fails exactly when the outer table must grow and the capacity
\* sequence has no larger entry, and a set that fails leaves the table as it
\* was.
C7_SetFailsOnlyExhaustedAtomically ==
    [][last'.op = "set"
         => /\ (last'.ret.err # "none")
                  <=> (MustGrow(self, last'.key1) /\ NoLargerCapacity(self))
            /\ (last'.ret.err # "none") => self' = self]_vars

\* C8: contains returns a boolean and raises nothing, in every state and
\* for every pair, and returns true exactly when get succeeds.
C8_ContainsNeverFails ==
    last.op = "contains"
        => /\ last.ret.err = "none"
           /\ last.ret.val = (<<last.key1, last.key2>> \in Retrievable(self))

\* C9: keys(k) and values(k) raise KeyError when k has no outer slot.
C9_ScopedProjectionMissingKey ==
    (last.op \in {"keys", "values"} /\ last.key1 # None
     /\ ~HasOuterSlot(self, last.key1))
        => last.ret.err = "KeyError"

\* C10: values(None) holds, as a multiset, the values of the pairs a lookup
\* finds, one per pair; for every key1 with an outer slot keys(key1) lists
\* exactly the key2 a lookup finds under it, each once, and values(key1)
\* their values.
C10_ProjectionsAgreeWithLookup ==
    /\ LET all == values(self, None)
       IN  /\ all.err = "none" /\ all.kind = "value"
           /\ Len(all.val) = Cardinality(Retrievable(self))
           /\ \A v \in Values :
                 Occurrences(all.val, v)
                   = Cardinality({p \in Retrievable(self) :
                                     getitem(self, p[1], p[2]).val = v})
    /\ \A key1 \in K1Keys :
          HasOuterSlot(self, key1) =>
             LET ks == keys(self, key1)
                 vs == values(self, key1)
             IN  /\ ks.err = "none" /\ ks.kind = "value"
                 /\ vs.err = "none" /\ vs.kind = "value"
                 /\ {ks.val[n] : n \in 1..Len(ks.val)}
                      = {key2 \in K2Keys : <<key1, key2>> \in Retrievable(self)}
                 /\ Len(ks.val) = Cardinality({ks.val[n] : n \in 1..Len(ks.val)})
                 /\ Len(vs.val) = Len(ks.val)
                 /\ \A n \in 1..Len(ks.val) :
                       getitem(self, key1, ks.val[n]) = Ok(vs.val[n])

\* C10 witness: values(None) was called on a table that was resized, holds
\* three entries under two outer keys, and returned both values.
C10_Witness ==
    /\ last.op = "values"
    /\ last.key1 = None
    /\ self.size_index = 1
    /\ table_size(self) = 7
    /\ Len(last.ret.val) = 3
    /\ {last.ret.val[n] : n \in 1..3} = Values
    /\ Cardinality(OccupiedSlots(self)) = 2

\* C11: table_count is the number of non-empty outer slots after any
\* sequence of set and delete calls.
C11_TableCountIsOccupancy ==
    self.table_count = Cardinality(OccupiedSlots(self))

\* the entries held in the slots of an inner table
InnerEntries(tab) == {j \in DOMAIN tab.array : tab.array[j] # None}

\* C12: between public calls every occupied outer slot holds an inner table
\* with at least one entry (and a count that says so).
C12_NoEmptyInnerTable ==
    \A i \in OccupiedSlots(self) :
        /\ InnerEntries(self.array[i][2]) # {}
        /\ ~LPT_is_empty(self.array[i][2])

\* C12 witness: a delete emptied an inner table, cleared its outer slot and
\* reinserted an item of the run behind it through a fresh inner table;
\* the table still holds items.
C12_Witness ==
    /\ last.op = "delete"
    /\ last.ret.err = "none"
    /\ last.note.cleared >= 0
    /\ last.note.moved >= 1
    /\ \E i \in OccupiedSlots(self) :
          Cardinality(InnerEntries(self.array[i][2])) >= 1

\* the slots scanned from position from, in +1 steps modulo the capacity,
\* before slot to is reached
ScannedBefore(t, from, to) ==
    {(from + d) % table_size(t) : d \in 0..(((to - from) % table_size(t)) - 1)}

\* C13: for every key1 in the outer array, the scan from hash1(key1) at the
\* current capacity reaches its slot before it reaches an empty slot.
C13_OuterProbeInvariant ==
    \A i \in OccupiedSlots(self) :
        \A j \in ScannedBefore(self, hash1(self, self.array[i][1]), i) :
            self.array[j] # None

\* C13 witness: after a delete that repaired a cluster, an item sits one
\* slot or more past the slot hash1 gives.
C13_Witness ==
    /\ last.op = "delete"
    /\ last.note.moved >= 1
    /\ \E i \in OccupiedSlots(self) :
          ScannedBefore(self, hash1(self, self.array[i][1]), i) # {}

\* C14 as stated: after every set that returns successfully the number of
\* occupied outer slots is at most half the outer capacity.
C14_LoadFactorAfterSet ==
    (last.op = "set" /\ last.ret.err = "none")
        => 2 * Cardinality(OccupiedSlots(self)) <= table_size(self)

\* C14 amended: after every set that returns successfully without having
\* resized the outer table, the number of occupied outer slots is at most
\* half the outer capacity.
C14_LoadFactorAfterSetNoResize ==
    (last.op = "set" /\ last.ret.err = "none" /\ ~last.note.resized)
        => 2 * Cardinality(OccupiedSlots(self)) <= table_size(self)

\* C14 witness: a set that bound a new outer slot returned without a
\* resize and left the outer table exactly as full as the bound allows.
C14_Witness ==
    /\ last.op = "set"
    /\ last.ret.err = "none"
    /\ ~last.note.resized
    /\ Cardinality(OccupiedSlots(self)) >= 1
    /\ 2 * (Cardinality(OccupiedSlots(self)) + 1) > table_size(self)

\* C15: a set advances size_index by exactly one step exactly when, after
\* its write, the occupied outer slots exceed half the outer capacity, and
\* leaves it alone otherwise; no operation lowers size_index.
C15_ResizeTrigger ==
    [][/\ self'.size_index >= self.size_index
       /\ (last'.op = "set" /\ last'.ret.err # "FullError")
            => self'.size_index = self.size_index +
                 (IF MustGrow(self, last'.key1) THEN 1 ELSE 0)]_vars

\* C16: get, contains, keys and values leave the whole table as it was,
\* whether they return or raise, so keys(None) gives the same list again.
C16_ReadOnly ==
    [][last'.op \in {"get", "contains", "keys", "values"}
         => /\ self' = self
            /\ keys(self', None) = keys(self, None)]_vars

\* C16 witness: a get of a key1 that has no outer slot raised KeyError on a
\* table that holds items and has the empty slot an inserting probe would
\* have bound.
C16_Witness ==
    /\ last.op = "get"
    /\ last.ret.err = "KeyError"
    /\ ~HasOuterSlot(self, last.key1)
    /\ OccupiedSlots(self) # {}
    /\ self.array[hash1(self, last.key1)] = None

\* C17: no two outer slots hold the same key1, and keys(None) lists each
\* key1 that has a stored entry exactly once, and nothing else.
C17_OuterKeysUnique ==
    /\ \A i, j \in OccupiedSlots(self) :
          self.array[i][1] = self.array[j][1] => i = j
    /\ LET ks == keys(self, None).val
       IN  /\ \A n \in 1..Len(ks) : ks[n] \in K1Keys
           /\ \A k \in K1Keys :
                 Occurrences(ks, k) =
                     IF \E p \in StoredPairs(self) : p[1] = k THEN 1 ELSE 0

\* C17 witness: a second key2 was set under a key1 that already had an
\* outer slot, and another key1 is stored too.
C17_Witness ==
    /\ last.op = "set"
    /\ last.ret.err = "none"
    /\ Cardinality({p \in StoredPairs(self) : p[1] = last.key1}) = 2
    /\ Len(keys(self, None).val) >= 2

\* C18: every get, set and delete returns or raises: none of them runs
\* without end, the repair loop of delete included.
C18_Terminates ==
    last.ret.err # "NoReturn"

\* C18 witness: a delete cleared a slot of an outer table that was
\* completely full and its repair loop moved the rest of the table.
C18_Witness ==
    /\ last.op = "delete"
    /\ last.ret.err = "none"
    /\ last.note.cleared >= 0
    /\ last.note.moved >= 1
    /\ Cardinality(OccupiedSlots(self)) = table_size(self) - 1

\* --------------------------------------------------- InfiniteHashTable --
\* Under SpecIHT the variable self is an InfiniteHashTable.  Its tables are
\* objects that slots refer to, and a delete can store a table it found in
\* one slot into another (line 85), so two slots can refer to one table and
\* a table can come to hold itself.  self is therefore the sequence of the
\* table objects reachable from the outermost table, which is self[1]: each a
\* record [level, array], each slot None, <<key, [value |-> v]>> or
\* <<key, [table |-> id]>> with id an index of the sequence.

\* the depth of nested calls after which a call raises RecursionError
\* (the interpreter's recursion limit, far above the depth of any table the
\* keys of IHT_Keys can build)
MaxDepth == 8

\* "ab", "abc", "ac", "b"
IHT_Keys == {<<97, 98>>, <<97, 98, 99>>, <<97, 99>>, <<98>>}

TABLE_SIZE == 27

\* InfiniteHashTable() with the level given
NewTable(level) == [level |-> level, array |-> ArrayR(TABLE_SIZE)]

\* InfiniteHashTable()
InfiniteHashTable == <<NewTable(0)>>

\* isinstance(x, InfiniteHashTable) for what a slot holds beside its key
IsTable(x) == "table" \in DOMAIN x

\* self.hash(key) for the table id of objs
iht_hash(objs, id, key) ==
    IF objs[id].level < Len(key)
    THEN key[objs[id].level + 1] % (TABLE_SIZE - 1)
    ELSE TABLE_SIZE - 1

\* self[key]: the isinstance test of line 42 is made on the slot, which is a
\* tuple and never a table, so the slot itself is returned (line 45)
iht_getitem(objs, id, key) ==
    LET position == iht_hash(objs, id, key)
    IN  IF objs[id].array[position] = None THEN Raise("KeyError")
        ELSE [err |-> "none", kind |-> "tuple",
              val |-> objs[id].array[position]]

\* key in self
iht_contains(objs, id, key) ==
    IF iht_getitem(objs, id, key).err = "KeyError" THEN Ok(FALSE) ELSE Ok(TRUE)

\* key[:n]
Prefix(key, n) == SubSeq(key, 1, IF n < Len(key) THEN n ELSE Len(key))

\* self[key] = value for the table id of objs, value being what the slot
\* is to hold beside the key: [err, objs].  depth is the number of nested
\* calls still allowed.
RECURSIVE iht_setitem(_, _, _, _, _)
iht_setitem(objs, id, key, value, depth) ==
    IF depth = 0 THEN [err |-> "RecursionError", objs |-> objs]
    ELSE
    LET position == iht_hash(objs, id, key)
        slot == objs[id].array[position]
    IN  IF slot = None
        THEN [err |-> "none",
              objs |-> [objs EXCEPT ![id].array[position] = <<key, value>>]]
        ELSE IF IsTable(slot[2])
        THEN iht_setitem(objs, slot[2].table, key, value, depth - 1)
        ELSE
        LET new == Len(objs) + 1
            level == objs[id].level + 1
            objs1 == [Append(objs, NewTable(level)) EXCEPT
                         ![id].array[position] =
                             <<Prefix(key, level), [table |-> new]>>]
            first == iht_setitem(objs1, new, key, value, depth - 1)
        IN  IF first.err # "none" THEN first
            ELSE iht_setitem(first.objs, new, slot[1], slot[2], depth - 1)

\* the tables the slots of table id refer to, in slot order from slot i on
RECURSIVE Referred(_, _, _)
Referred(objs, id, i) ==
    IF i >= TABLE_SIZE THEN <<>>
    ELSE IF objs[id].array[i] # None /\ IsTable(objs[id].array[i][2])
    THEN <<objs[id].array[i][2].table>> \o Referred(objs, id, i + 1)
    ELSE Referred(objs, id, i + 1)

\* len(self) for the table id of objs: [err, val].  Each slot that holds a
\* value counts 1, each that holds a table counts the len of that table.
RECURSIVE iht_len(_, _, _)
RECURSIVE iht_len_tables(_, _, _)
iht_len(objs, id, depth) ==
    IF depth = 0 THEN [err |-> "RecursionError", val |-> 0]
    ELSE
    LET inner == iht_len_tables(objs, Referred(objs, id, 0), depth - 1)
    IN  IF inner.err # "none" THEN inner
        ELSE [err |-> "none",
              val |-> inner.val +
                      Cardinality({i \in DOMAIN objs[id].array :
                                      /\ objs[id].array[i] # None
                                      /\ ~IsTable(objs[id].array[i][2])})]

\* the sum of len(item[1]) over the tables ids
iht_len_tables(objs, ids, depth) ==
    IF ids = <<>> THEN [err |-> "none", val |-> 0]
    ELSE LET here == iht_len(objs, Head(ids), depth)
         IN  IF here.err # "none" THEN here
             ELSE LET rest == iht_len_tables(objs, Tail(ids), depth)
                  IN  IF rest.err # "none" THEN rest
                      ELSE [err |-> "none", val |-> here.val + rest.val]

\* the slots of the table id whose item has another key than key
OtherItems(objs, id, key) ==
    {i \in DOMAIN objs[id].array :
        objs[id].array[i] # None /\ objs[id].array[i][1] # key}

\* del self[key] for the table id of objs: [err, objs].  Lines 83-85 each
\* read self.array[position][1] again; new_key is unbound at line 84 when
\* the loop of lines 79-82 found no item.
RECURSIVE iht_delitem(_, _, _, _)
iht_delitem(objs, id, key, depth) ==
    IF depth = 0 THEN [err |-> "RecursionError", objs |-> objs]
    ELSE
    LET position == iht_hash(objs, id, key)
        slot == objs[id].array[position]
    IN  IF slot = None THEN [err |-> "KeyError", objs |-> objs]
        ELSE IF ~IsTable(slot[2])
        THEN [err |-> "none", objs |-> [objs EXCEPT ![id].array[position] = None]]
        ELSE
        LET sub == slot[2].table
            n == iht_len(objs, sub, depth - 1)
        IN  IF n.err # "none" THEN [err |-> n.err, objs |-> objs]
            ELSE IF n.val # 2 THEN iht_delitem(objs, sub, key, depth - 1)
            ELSE
            LET others == OtherItems(objs, sub, key)
                first == iht_delitem(objs, sub, key, depth - 1)
            IN  IF first.err # "none" THEN first
                ELSE IF others = {}
                THEN [err |-> "UnboundLocalError", objs |-> first.objs]
                ELSE
                LET item == objs[sub].array[CHOOSE i \in others :
                                               \A j \in others : i <= j]
                    slot1 == first.objs[id].array[position]
                IN  IF slot1 = None \/ ~IsTable(slot1[2])
                    THEN [err |-> "TypeError", objs |-> first.objs]
                    ELSE
                    LET second == iht_delitem(first.objs, slot1[2].table,
                                              item[1], depth - 1)
                    IN  IF second.err # "none" THEN second
                        ELSE iht_setitem(second.objs, id, item[1], item[2],
                                         depth - 1)

\* the tables reachable from those of todo, each once, in the order a walk
\* from the outermost table meets them
RECURSIVE ReachableTables(_, _, _)
ReachableTables(objs, todo, met) ==
    IF todo = <<>> THEN met
    ELSE IF \E n \in 1..Len(met) : met[n] = Head(todo)
    THEN ReachableTables(objs, Tail(todo), met)
    ELSE ReachableTables(objs, Referred(objs, Head(todo), 0) \o Tail(todo),
                         Append(met, Head(todo)))

\* objs without the tables nothing refers to any more, the others numbered
\* in the order of ReachableTables
Collected(objs) ==
    LET met == ReachableTables(objs, <<1>>, <<>>)
        number(id) == CHOOSE n \in 1..Len(met) : met[n] = id
        renumbered(item) ==
            IF item # None /\ IsTable(item[2])
            THEN <<item[1], [table |-> number(item[2].table)]>>
            ELSE item
    IN  [n \in 1..Len(met) |->
            [level |-> objs[met[n]].level,
             array |-> [i \in 0..(TABLE_SIZE - 1) |->
                           renumbered(objs[met[n]].array[i])]]]

\* self.get_location(key) for the table id of objs: [err, kind, val]
RECURSIVE iht_get_location(_, _, _, _)
iht_get_location(objs, id, key, depth) ==
    IF depth = 0 THEN Raise("RecursionError")
    ELSE
    LET position == iht_hash(objs, id, key)
        slot == objs[id].array[position]
    IN  IF slot = None THEN Raise("KeyError")
        ELSE IF IsTable(slot[2])
        THEN LET rest == iht_get_location(objs, slot[2].table, key, depth - 1)
             IN  IF rest.err # "none" THEN rest
                 ELSE Ok(<<position>> \o rest.val)
        ELSE Ok(<<position>>)

\* a call that ran into the recursion limit is the last call made
Running == last.ret.err # "RecursionError"

InitIHT ==
    /\ self = InfiniteHashTable
    /\ last = Call("init", None, None, 0, ReturnNone, NoNote)

IHT_Set(key, value) ==
    LET r == iht_setitem(self, 1, key, [value |-> value], MaxDepth)
    IN  /\ Running
        /\ self' = Collected(r.objs)
        /\ last' = Call("set", key, None, value,
                        IF r.err = "none" THEN ReturnNone ELSE Raise(r.err),
                        NoNote)

IHT_Delete(key) ==
    LET r == iht_delitem(self, 1, key, MaxDepth)
    IN  /\ Running
        /\ self' = Collected(r.objs)
        /\ last' = Call("delete", key, None, 0,
                        IF r.err = "none" THEN ReturnNone ELSE Raise(r.err),
                        NoNote)

IHT_Get(key) ==
    /\ Running
    /\ last' = Call("get", key, None, 0, iht_getitem(self, 1, key), NoNote)
    /\ UNCHANGED self

IHT_Contains(key) ==
    /\ Running
    /\ last' = Call("contains", key, None, 0, iht_contains(self, 1, key),
                    NoNote)
    /\ UNCHANGED self

IHT_GetLocation(key) ==
    /\ Running
    /\ last' = Call("get_location", key, None, 0,
                    iht_get_location(self, 1, key, MaxDepth), NoNote)
    /\ UNCHANGED self

IHT_Len ==
    LET n == iht_len(self, 1, MaxDepth)
    IN  /\ Running
        /\ last' = Call("len", None, None, 0,
                        IF n.err = "none" THEN Ok(n.val) ELSE Raise(n.err),
                        NoNote)
        /\ UNCHANGED self

NextIHT ==
    \/ \E key \in IHT_Keys, value \in Values : IHT_Set(key, value)
    \/ \E key \in IHT_Keys : IHT_Delete(key)
    \/ \E key \in IHT_Keys : IHT_Get(key)
    \/ \E key \in IHT_Keys : IHT_Contains(key)
    \/ \E key \in IHT_Keys : IHT_GetLocation(key)
    \/ IHT_Len

SpecIHT == InitIHT /\ [][NextIHT]_vars

\* the (key, value) entries held in the slots of the tables of objs
Entries(objs) ==
    {e \in IHT_Keys \X Values :
        \E id \in DOMAIN objs : \E i \in DOMAIN objs[id].array :
            objs[id].array[i] = <<e[1], [value |-> e[2]]>>}

\* the keys stored in objs
StoredKeys(objs) == {e[1] : e \in Entries(objs)}

\* C19: get(k) returns the value stored for k when k is stored and raises
\* KeyError when it is not, also when a stored key shares k's position.
C19_GetReturnsStoredValue ==
    last.op = "get"
        => IF last.key1 \in StoredKeys(self)
           THEN /\ last.ret.kind = "value"
                /\ <<last.key1, last.ret.val>> \in Entries(self)
           ELSE last.ret.err = "KeyError"

\* C20: delete(k) of a key that is not stored raises KeyError and leaves the
\* table as it was.
C20_DeleteAbsentKey ==
    [][(last'.op = "delete" /\ last'.key1 \notin StoredKeys(self))
         => /\ last'.ret.err = "KeyError"
            /\ self' = self]_vars

\* the number of keys held in table id and the tables below it, 0 when
\* counting them does not end
KeysBelow(objs, id) ==
    LET n == iht_len(objs, id, MaxDepth)
    IN  IF n.err = "none" THEN n.val ELSE 0

\* the stored keys whose position in the outermost table is that of key
SharingFirstPosition(objs, key) ==
    {k \in StoredKeys(objs) : iht_hash(objs, 1, k) = iht_hash(objs, 1, key)}

\* C21: after set and delete calls that returned or raised KeyError, no
\* sub-table holds fewer than two keys, and the location of a stored key
\* that shares its outermost position with no other stored key is that
\* single position.
C21_CollapseOnDelete ==
    Running
      => /\ \A id \in 2..Len(self) : KeysBelow(self, id) >= 2
         /\ (/\ last.op = "get_location"
             /\ last.key1 \in StoredKeys(self)
             /\ SharingFirstPosition(self, last.key1) = {last.key1})
               => last.ret = Ok(<<iht_hash(self, 1, last.key1)>>)

\* C22: set(k, v2) on a stored key k returns, stores v2 for k, and leaves
\* len() and every other key's value and location as they were.
C22_UpdateExistingKey ==
    [][(last'.op = "set" /\ last'.key1 \in StoredKeys(self))
         => /\ last'.ret.err = "none"
            /\ <<last'.key1, last'.data>> \in Entries(self')
            /\ iht_len(self', 1, MaxDepth) = iht_len(self, 1, MaxDepth)
            /\ \A e \in Entries(self) :
                  e[1] # last'.key1
                    => /\ e \in Entries(self')
                       /\ iht_get_location(self', 1, e[1], MaxDepth)
                            = iht_get_location(self, 1, e[1], MaxDepth)]_vars

\* --------------------------------------------------------------- Trail --
\* Under SpecTrail the variable self is the Trail that follow_path is
\* called on and last is the running call: its locals current and
\* linked_stack, where it is (pc), and the calls it has made on the
\* personality: added lists the mountains given to add_mountain, asked the
\* <<path_top, path_bottom, result>> of each select_branch.
\* A Trail is written as its store: None, TrailSeries or TrailSplit.
\* data_structures/linked_stack.py and personality.py are not among the
\* source files: the stack is a last-in first-out stack, and the
\* personality's two methods return (select_branch with any result) and
\* leave the trail alone.

\* the depth of the trails walked
MaxTrailDepth == 3

\* the mountains on the trails
Mountains == {1, 2}

TrailSeries(mountain, following) == <<"series", mountain, following>>

TrailSplit(path_top, path_bottom, path_follow) ==
    <<"split", path_top, path_bottom, path_follow>>

\* isinstance(store, TrailSeries), for a store that is not None
IsSeries(store) == store[1] = "series"

\* the trails a split has on the paths that are not its longest
ShortTrails == {None, TrailSeries(1, None)}

\* the trails of depth n or less; a split has one path of depth n - 1 or
\* less and two of ShortTrails
RECURSIVE Trails(_)
Trails(n) ==
    IF n = 0 THEN {None}
    ELSE LET deep == Trails(n - 1)
             short == IF n = 1 THEN {None} ELSE ShortTrails
         IN  {None}
             \cup {TrailSeries(m, t) : m \in Mountains, t \in deep}
             \cup {TrailSplit(a, b, c) : a \in deep, b \in short, c \in short}
             \cup {TrailSplit(a, b, c) : a \in short, b \in deep, c \in short}
             \cup {TrailSplit(a, b, c) : a \in short, b \in short, c \in deep}

\* LinkedStack()
LinkedStack == <<>>

\* linked_stack.is_empty()
is_empty(linked_stack) == linked_stack = <<>>

\* linked_stack.push(item): the stack after it
push(linked_stack, item) == <<item>> \o linked_stack

\* linked_stack.pop(): the item returned and the stack after it
pop(linked_stack) == [item |-> Head(linked_stack), stack |-> Tail(linked_stack)]

\* selected that takes the other branch
selected_swapped(store, branch) ==
    IF branch = TRUE THEN store[3] ELSE store[2]

\* line 134: path_top if branch == True else path_bottom
selected(store, branch) ==
    IF branch = TRUE THEN store[2] ELSE store[3]

\* lines 117-118
InitTrail ==
    /\ self \in Trails(MaxTrailDepth)
    /\ last = [op |-> "follow_path", pc |-> "loop", current |-> self,
               linked_stack |-> LinkedStack, added |-> <<>>, asked |-> <<>>]

\* lines 121-123: the trail and the stack are empty
Return ==
    /\ last.pc = "loop"
    /\ last.current = None
    /\ is_empty(last.linked_stack)
    /\ last' = [last EXCEPT !.pc = "returned"]
    /\ UNCHANGED self

\* lines 121-125: the trail is empty, the stack is not
Resume ==
    /\ last.pc = "loop"
    /\ last.current = None
    /\ ~is_empty(last.linked_stack)
    /\ last' = [last EXCEPT !.current = pop(last.linked_stack).item,
                            !.linked_stack = pop(last.linked_stack).stack]
    /\ UNCHANGED self

\* lines 127-129
AddMountain ==
    /\ last.pc = "loop"
    /\ last.current # None
    /\ IsSeries(last.current)
    /\ last' = [last EXCEPT !.added = Append(@, last.current[2]),
                            !.current = last.current[3]]
    /\ UNCHANGED self

\* lines 130-134, select_branch returning branch
SelectBranch(branch) ==
    /\ last.pc = "loop"
    /\ last.current # None
    /\ ~IsSeries(last.current)
    /\ last' = [last EXCEPT
                  !.linked_stack = push(@, last.current[4]),
                  !.asked = Append(@, <<last.current[2], last.current[3],
                                        branch>>),
                  !.current = selected(last.current, branch)]
    /\ UNCHANGED self

NextTrail ==
    \/ Return
    \/ Resume
    \/ AddMountain
    \/ \E branch \in BOOLEAN : SelectBranch(branch)

SpecTrail == InitTrail /\ [][NextTrail]_vars

\* follow_path runs on: no step of the loop waits for anything
SpecTrailFair == SpecTrail /\ WF_vars(NextTrail)

\* the walk of trail that the results answers (of the select_branch calls,
\* in order) describe: the mountains passed, the select_branch calls made,
\* and the results left over
RECURSIVE Walk(_, _)
Walk(trail, answers) ==
    IF trail = None
    THEN [added |-> <<>>, asked |-> <<>>, rest |-> answers]
    ELSE IF IsSeries(trail)
    THEN LET following == Walk(trail[3], answers)
         IN  [following EXCEPT !.added = <<trail[2]>> \o @]
    ELSE LET branch == Walk(IF Head(answers) THEN trail[2] ELSE trail[3],
                            Tail(answers))
             follow == Walk(trail[4], branch.rest)
         IN  [added |-> branch.added \o follow.added,
              asked |-> <<<<trail[2], trail[3], Head(answers)>>>>
                        \o branch.asked \o follow.asked,
              rest |-> follow.rest]

\* the results of the select_branch calls made, in order
Answers == [n \in 1..Len(last.asked) |-> last.asked[n][3]]

\* C23: follow_path returns; when it has, the trail and the stack are
\* empty, and the mountains added and the branches asked for are those of
\* the walk that takes the selected branch of each split and then the
\* split's path_follow, innermost split first.
C23_FollowPath ==
    /\ <>(last.pc = "returned")
    /\ [](last.pc = "returned"
            => /\ last.current = None
               /\ is_empty(last.linked_stack)
               /\ Walk(self, Answers) =
                    [added |-> last.added, asked |-> last.asked,
                     rest |-> <<>>])

\* C23 witness: follow_path has returned from a trail with a split on the
\* selected branch of a split, after mountains 2 and 1 of the two
\* path_follows in that order.
C23_Witness ==
    /\ last.pc = "returned"
    /\ Len(last.asked) >= 2
    /\ self # None /\ ~IsSeries(self)
    /\ selected(self, last.asked[1][3]) # None
    /\ ~IsSeries(selected(self, last.asked[1][3]))
    /\ last.added = <<2, 1>>

====
